---- MODULE Spec2Model ----
(***************************************************************************)
(* crypto-updater: the synchronisation run of src/app.py                   *)
(* (notion_scheduler -> update_notion_database) and the connector of       *)
(* src/notion_connector.py (CoinGeckoAPI.update_crypto_rates).              *)
(*                                                                         *)
(* Text is a sequence of one-character strings, so that strip() and        *)
(* lower() are computed.  Prices are integers in units of 1e-11 USD, so    *)
(* that the unchanged-threshold 1e-10 is the integer 10.                   *)
(***************************************************************************)
EXTENDS Integers, Sequences, FiniteSets, TLC

\* ------------------------------------------------------------------ bounds
\* Number of rows of the Notion database.
NumRecords == 6
\* Rows per query response (page_size is 100 in the source, scaled down).
MaxPageSize == 3
\* COINGECKO_CHUNK_SIZE (200 by default, configurable), scaled down.
ChunkSize == 2
\* Calls of update_notion_database the scheduler makes.
MaxRuns == 2
\* Failed page queries per run.
MaxStoreFaults == 1
\* Responses with has_more true and no next_cursor per run.
MaxAnomalies == 1
\* Failed oracle requests per run.
MaxOracleFaults == 3
\* Failed PATCH requests per run.
MaxWriteFaults == 1
\* Failed requests of one call of update_crypto_rates.
MaxConnFaults == 3
\* Answers a server has ready for the sendings of one request.
MaxScript == 3

\* --------------------------------------------------------- program constants
retries == 3
max_workers == 3
batch_size == 10
max_retries == 3

\* A Price property without a number ({"number": null}); a price p is <<p>>.
NoNumber == <<>>

\* Times are in tenths of a second: int(headers.get('Retry-After', 60)) and
\* sleep(0.1).
DefaultRetryAfter == 600
ChunkPause == 1

\* The Retry-After header of a 429: absent, or 7 seconds.
RetryAfterHints == {NoNumber, <<70>>}

\* reset_time = int(response.headers.get('Retry-After', 60))
ResetTime(hint) == IF hint = NoNumber THEN DefaultRetryAfter ELSE hint[1]

NoPause == [hint |-> NoNumber, slept |-> 0]

\* ------------------------------------------------------------------ text
Whitespace == {" "}

LowerOf(c) ==
    CASE c = "B" -> "b" [] c = "T" -> "t" [] c = "C" -> "c"
      [] c = "E" -> "e" [] c = "H" -> "h"
      [] OTHER -> c

\* str.lower()
Lower(s) == [i \in 1..Len(s) |-> LowerOf(s[i])]

RECURSIVE LStrip(_)
LStrip(s) == IF s # <<>> /\ Head(s) \in Whitespace THEN LStrip(Tail(s)) ELSE s

RECURSIVE RStrip(_)
RStrip(s) ==
    IF s # <<>> /\ s[Len(s)] \in Whitespace
    THEN RStrip(SubSeq(s, 1, Len(s) - 1))
    ELSE s

\* A strip that leaves the trailing whitespace in place.
Strip_LeftOnly(s) == LStrip(s)

\* str.strip()
Strip(s) == RStrip(LStrip(s))

\* ------------------------------------------------------------- the store
Records == 1..NumRecords

\* The Symbol property of the rows, by kind; row r has kind ((r-1) % 6) + 1.
SymbolKinds == <<
    [type |-> "rich_text", frags |-> << <<" ", "B", "T", "C", " ">> >>],
    [type |-> "title",     frags |-> << <<"b", "t", "c">> >>],
    [type |-> "rich_text", frags |-> << <<"x", "y", "z">> >>],
    [type |-> "number",    frags |-> << >>],
    [type |-> "rich_text", frags |-> << <<"E", "T", "H">> >>],
    [type |-> "title",     frags |-> << <<"E", "t", "h", " ">> >> ] >>

\* The row whose Symbol cell is an emptied text cell (the store returns it
\* as rich_text with an empty list of fragments); 0 when there is none.
VARIABLE blankRow

SymbolProp(r) ==
    IF r = blankRow
    THEN [type |-> "rich_text", frags |-> << >>]
    ELSE SymbolKinds[((r - 1) % Len(SymbolKinds)) + 1]

\* Whether the database has the Last Updated column.
VARIABLE hasUpdated

\* The properties a page of the database has.
StoreProperties ==
    {"Symbol", "Price"} \cup (IF hasUpdated THEN {"Last Updated"} ELSE {})

btc == <<"b", "t", "c">>
eth == <<"e", "t", "h">>

\* The oracle's quotes (units of 1e-11 USD); any other id has no quote.
KnownCoins == {btc, eth}
OraclePrice(k) == IF k = btc THEN 1000 ELSE 2000

\* The Price property of the rows before the first run: one price unit
\* (1e-11) off the quote, none, none, none, 100 units (1e-9) off the quote,
\* equal to the quote.
InitialPrice(r) ==
    LET k == ((r - 1) % Len(SymbolKinds)) + 1 IN
    CASE k = 1 -> <<1001>>
      [] k = 5 -> <<2100>>
      [] k = 6 -> <<2000>>
      [] OTHER -> NoNumber

\* The rows of the response to a query with the given cursor (0: no cursor).
PageRows(cursor) ==
    LET first == cursor + 1
        last  == IF cursor + MaxPageSize < NumRecords
                 THEN cursor + MaxPageSize ELSE NumRecords
    IN [i \in 1..(last - first + 1) |-> first + i - 1]

HasMore(cursor) == cursor + MaxPageSize < NumRecords
NextCursor(cursor) == cursor + MaxPageSize

\* ------------------------------------------------------- the run's state
VARIABLES
    pc,              \* where notion_scheduler / update_notion_database stands
    run,             \* calls of update_notion_database started so far
    outcome,         \* how the current (or last) run ended
    start_cursor,    \* the enumeration loop's cursor, 0 for None
    all_coin_ids,    \* get_coins_from_notion: the set of ids
    coin_ids_list,   \* fetch_prices_from_coingecko: its argument
    chunk_i,         \* index of the chunk being requested
    attempt,         \* attempt of the retry loop
    all_prices,      \* id -> price
    all_pages,       \* get_all_notion_pages_for_update: the list of pages
    update_tasks,    \* sequence of [page_id, new_price]
    queue,           \* the executor's work queue: indices of update_tasks
    inflight,        \* indices of the tasks whose PATCH is in flight
    results,         \* task index -> what update_single_notion_page returned
    updated_count,
    failed_updates,
    summary,         \* the line "updated / failed" was logged
    storePrice,      \* the store: row -> Price property
    sent,            \* the store's log: task index -> PATCH requests received
    answers,         \* the store's log: task index -> its answer to the PATCH
    pageFail,        \* enumeration passes of this run that had a failed query
    storeFaults, anomalies, oracleFaults, writeFaults,
    prevClean,       \* the previous run read every row, got every quote and
                     \* had every write succeed
    trail,           \* the stages this run has entered, in order
    chunkLog,        \* chunk -> the answers to its requests, in order, while
                     \* fetch_prices_from_coingecko runs
    pause,           \* the Retry-After header of the last answer and the time
                     \* slept since it (tenths of a second)
    \* notion_connector.py, CoinGeckoAPI.update_crypto_rates
    cpc,             \* where update_crypto_rates stands
    crypto_i,        \* index of the loop over cryptocurrencies
    coin_mapping,    \* CoinGecko id -> page_id
    coin_ids,        \* list(coin_mapping.keys()), in insertion order
    batch_i,         \* number of the batch being requested
    batch_attempt,   \* attempt of get_batch_prices
    updated_cryptos, \* sequence of [page_id, coingecko_id, price_usd]
    update_i,        \* index of the loop of update_notion_database
    success_count,
    error_count,
    patched,         \* the store's log: the pages whose PATCH succeeded
    connFaults,      \* failed requests of the connector so far
    batchLog,        \* the answers to the requests of the running
                     \* get_batch_prices, in order
    batchReturn,     \* the last get_batch_prices that returned: its batch,
                     \* the answers to its requests, what it returned
    requests,        \* the last search_cryptocurrency or PATCH: the answers
                     \* to each of its requests, and whether it succeeded
    recordLog        \* what update_notion_database did with each entry

appVars == <<pc, run, outcome, start_cursor, all_coin_ids, coin_ids_list,
          chunk_i, attempt, all_prices, all_pages, update_tasks, queue, inflight,
          results, updated_count, failed_updates, summary, storePrice, sent,
          answers, pageFail, storeFaults, anomalies, oracleFaults, writeFaults,
          prevClean, trail, blankRow, hasUpdated, chunkLog, pause>>

connVars == <<cpc, crypto_i, coin_mapping, coin_ids, batch_i, batch_attempt,
              updated_cryptos, update_i, success_count, error_count, patched,
              connFaults, batchLog, batchReturn, requests, recordLog>>

vars == <<appVars, connVars>>

storeVars == <<storePrice, blankRow, hasUpdated>>
enumVars  == <<start_cursor, all_coin_ids, all_pages, pageFail, storeFaults,
               anomalies>>
quoteVars == <<coin_ids_list, chunk_i, attempt, all_prices, oracleFaults,
               chunkLog, pause>>
writeVars == <<update_tasks, queue, inflight, results, sent, answers,
               writeFaults>>
reportVars == <<updated_count, failed_updates, summary>>

EmptyMap == [k \in {} |-> 0]

\* dict.update
Update(d, e) ==
    [k \in DOMAIN d \cup DOMAIN e |-> IF k \in DOMAIN e THEN e[k] ELSE d[k]]

Min(a, b) == IF a < b THEN a ELSE b

\* A list that holds one of the elements twice.
Orders_Repeated(S) ==
    {s \in [1..(Cardinality(S) + 1) -> S] :
        \A a \in S : \E i \in DOMAIN s : s[i] = a}

\* list(set): the elements in some order
Orders(S) ==
    {s \in [1..Cardinality(S) -> S] : \A a \in S : \E i \in DOMAIN s : s[i] = a}

\* update_crypto_rates is entered with the list analyze_cryptocurrencies made.
InitConnVars ==
    /\ cpc = "search"
    /\ crypto_i = 1
    /\ coin_mapping = EmptyMap
    /\ coin_ids = <<>>
    /\ batch_i = 1
    /\ batch_attempt = 0
    /\ updated_cryptos = <<>>
    /\ update_i = 1
    /\ success_count = 0
    /\ error_count = 0
    /\ patched = {}
    /\ connFaults = 0
    /\ batchLog = <<>>
    /\ batchReturn = [batch |-> <<>>, log |-> <<>>, data |-> EmptyMap]
    /\ requests = [op |-> "none", at |-> 0, logs |-> <<>>, ok |-> FALSE]
    /\ recordLog = <<>>

InitAppVars ==
    /\ pc = "sched"
    /\ run = 0
    /\ outcome = "none"
    /\ start_cursor = 0
    /\ all_coin_ids = {}
    /\ coin_ids_list = <<>>
    /\ chunk_i = 1
    /\ attempt = 0
    /\ all_prices = EmptyMap
    /\ all_pages = <<>>
    /\ update_tasks = <<>>
    /\ queue = <<>>
    /\ inflight = {}
    /\ results = <<>>
    /\ updated_count = 0
    /\ failed_updates = <<>>
    /\ summary = FALSE
    /\ storePrice = [r \in Records |-> InitialPrice(r)]
    /\ blankRow \in {0, 4}
    /\ hasUpdated \in BOOLEAN
    /\ blankRow = 0 \/ hasUpdated
    /\ sent = <<>>
    /\ answers = <<>>
    /\ pageFail = {}
    /\ storeFaults = 0
    /\ anomalies = 0
    /\ oracleFaults = 0
    /\ writeFaults = 0
    /\ prevClean = FALSE
    /\ trail = <<>>
    /\ chunkLog = <<>>
    /\ pause = NoPause

Init == InitAppVars /\ InitConnVars

\* ----------------------------------------------------------- scheduler
\* The stage entered by this step, if any, is added to the trail.
Moved == trail' = IF pc' = pc THEN trail ELSE Append(trail, pc')

\* notion_scheduler: call update_notion_database.
StartRun ==
    /\ pc = "sched"
    /\ pc' = "enum1"
    /\ run' = run + 1
    /\ outcome' = "none"
    /\ Moved
    /\ UNCHANGED <<enumVars, quoteVars, writeVars, reportVars,
                   storeVars, prevClean, connVars>>

\* The run was complete and clean: nothing failed anywhere.
CleanRun ==
    /\ outcome = "done"
    /\ failed_updates = <<>>
    /\ pageFail = {}
    /\ blankRow = 0
    /\ all_coin_ids \cap KnownCoins \subseteq DOMAIN all_prices
    /\ writeFaults = 0

\* notion_scheduler: sleep(UPDATE_INTERVAL_SECONDS), then the next iteration.
Wake ==
    /\ pc = "sleep"
    /\ run < MaxRuns
    /\ pc' = "sched"
    /\ outcome' = outcome
    /\ start_cursor' = 0
    /\ all_coin_ids' = {}
    /\ coin_ids_list' = <<>>
    /\ chunk_i' = 1
    /\ attempt' = 0
    /\ all_prices' = EmptyMap
    /\ all_pages' = <<>>
    /\ update_tasks' = <<>>
    /\ queue' = <<>>
    /\ inflight' = {}
    /\ results' = <<>>
    /\ updated_count' = 0
    /\ failed_updates' = <<>>
    /\ summary' = FALSE
    /\ sent' = <<>>
    /\ answers' = <<>>
    /\ pageFail' = {}
    /\ storeFaults' = 0
    /\ anomalies' = 0
    /\ oracleFaults' = 0
    /\ writeFaults' = 0
    /\ prevClean' = CleanRun
    /\ trail' = <<>>
    /\ chunkLog' = <<>>
    /\ pause' = NoPause
    /\ UNCHANGED <<run, storeVars, connVars>>

\* ----------------------------------------------------------- enumeration
\* The Symbol property's text; raised stands for the IndexError of [0] on an
\* empty list of fragments.
TextContent(prop) ==
    IF prop.type \in {"rich_text", "title"}
    THEN IF prop.frags = <<>>
         THEN [raised |-> TRUE, text |-> <<>>]
         ELSE [raised |-> FALSE, text |-> Strip(prop.frags[1])]
    ELSE [raised |-> FALSE, text |-> <<>>]

\* get_coins_from_notion, the loop over one response's rows.
RECURSIVE CollectIds(_, _)
CollectIds(rows, acc) ==
    IF rows = <<>> THEN [ids |-> acc, raised |-> FALSE]
    ELSE LET got == TextContent(SymbolProp(Head(rows))) IN
         IF got.raised THEN [ids |-> acc, raised |-> TRUE]
         ELSE CollectIds(Tail(rows),
                         IF got.text # <<>>
                         THEN acc \cup {Lower(got.text)} ELSE acc)

\* get_all_notion_pages_for_update, the loop over one response's rows.
RECURSIVE CollectPages(_, _)
CollectPages(rows, acc) ==
    IF rows = <<>> THEN [pages |-> acc, raised |-> FALSE]
    ELSE LET got == TextContent(SymbolProp(Head(rows))) IN
         IF got.raised THEN [pages |-> acc, raised |-> TRUE]
         ELSE CollectPages(Tail(rows),
                  IF got.text # <<>>
                  THEN Append(acc, [page_id |-> Head(rows),
                                    coin_id |-> Lower(got.text)])
                  ELSE acc)

\* A chunking whose slices start one element early.
Chunks_Overlap(list) ==
    [c \in 1..((Len(list) + ChunkSize - 1) \div ChunkSize) |->
        SubSeq(list, IF c = 1 THEN 1 ELSE (c - 1) * ChunkSize,
                     Min(c * ChunkSize, Len(list)))]

\* chunks = [coin_ids_list[i:i + COINGECKO_CHUNK_SIZE] for i in range(...)]
Chunks(list) ==
    [c \in 1..((Len(list) + ChunkSize - 1) \div ChunkSize) |->
        SubSeq(list, (c - 1) * ChunkSize + 1, Min(c * ChunkSize, Len(list)))]

\* A run that goes on to the price fetch whatever the first pass returned.
AfterCoins_NoCheck(ids) ==
    /\ pc' = "quote"
    /\ outcome' = outcome
    /\ coin_ids_list' \in Orders(ids)
    /\ chunkLog' = [c \in DOMAIN Chunks(coin_ids_list') |-> <<>>]
    /\ start_cursor' = 0

\* update_notion_database after get_coins_from_notion returned ids.
AfterCoins(ids) ==
    IF ids = {}
    THEN /\ pc' = "sleep"
         /\ outcome' = "skipped"
         /\ coin_ids_list' = <<>>
         /\ chunkLog' = <<>>
         /\ start_cursor' = 0
    ELSE /\ pc' = "quote"
         /\ outcome' = outcome
         /\ coin_ids_list' \in Orders(ids)
         /\ chunkLog' = [c \in DOMAIN Chunks(coin_ids_list') |-> <<>>]
         /\ start_cursor' = 0

\* get_coins_from_notion: one query of the database and its handling.
CoinsQuery ==
    /\ pc = "enum1"
    /\ \/ \* the request raises, or raise_for_status does
          /\ storeFaults < MaxStoreFaults
          /\ storeFaults' = storeFaults + 1
          /\ pageFail' = pageFail \cup {1}
          /\ AfterCoins(all_coin_ids)
          /\ UNCHANGED <<all_coin_ids, anomalies>>
       \/ \* a response: has_more says whether rows remain
          /\ LET got == CollectIds(PageRows(start_cursor), all_coin_ids) IN
             /\ all_coin_ids' = got.ids
             /\ IF got.raised \/ ~HasMore(start_cursor)
                THEN AfterCoins(got.ids)
                ELSE /\ start_cursor' = NextCursor(start_cursor)
                     /\ UNCHANGED <<pc, outcome, coin_ids_list, chunkLog>>
          /\ UNCHANGED <<pageFail, storeFaults, anomalies>>
       \/ \* a response with has_more true and no next_cursor
          /\ HasMore(start_cursor)
          /\ anomalies < MaxAnomalies
          /\ anomalies' = anomalies + 1
          /\ LET got == CollectIds(PageRows(start_cursor), all_coin_ids) IN
             /\ all_coin_ids' = got.ids
             /\ IF got.raised
                THEN AfterCoins(got.ids)
                ELSE /\ start_cursor' = 0
                     /\ UNCHANGED <<pc, outcome, coin_ids_list, chunkLog>>
          /\ UNCHANGED <<pageFail, storeFaults>>
    /\ Moved
    /\ UNCHANGED <<run, chunk_i, attempt, all_prices, oracleFaults, pause,
                   all_pages, writeVars, reportVars, storeVars, prevClean,
                   connVars>>

\* ------------------------------------------------------------- the oracle
\* The body of a 200 response to ids=<chunk>: the known ids with their usd.
OracleData(chunk) ==
    [k \in {chunk[i] : i \in DOMAIN chunk} \cap KnownCoins |-> OraclePrice(k)]

\* The chunk loop moves on to the next chunk (after sleep(0.1)).
NextChunk ==
    /\ chunk_i' = chunk_i + 1
    /\ attempt' = 0
    /\ UNCHANGED <<pc, outcome, coin_ids_list>>

\* The answer to the request is added to the log of the current chunk.
Logged(answer) ==
    chunkLog' = [chunkLog EXCEPT ![chunk_i] = Append(@, answer)]

\* An exception that no handler catches: it ends the scheduler loop.
RaiseOutOfFetch_Uncaught ==
    /\ pc' = "stopped"
    /\ outcome' = "critical"
    /\ coin_ids_list' = <<>>
    /\ chunkLog' = <<>>
    /\ UNCHANGED <<chunk_i, attempt>>

\* The exception leaves fetch_prices_from_coingecko and is caught by
\* update_notion_database, which logs it as critical and returns.
RaiseOutOfFetch ==
    /\ pc' = "sleep"
    /\ outcome' = "critical"
    /\ coin_ids_list' = <<>>
    /\ chunkLog' = <<>>
    /\ UNCHANGED <<chunk_i, attempt>>

\* A failed attempt that is neither a 200 nor a 429.
AfterHardFailure ==
    IF attempt = retries - 1
    THEN RaiseOutOfFetch
    ELSE /\ attempt' = attempt + 1
         /\ Logged("failed")
         /\ UNCHANGED <<pc, outcome, chunk_i, coin_ids_list>>

\* A 429 that is waited out without using up an attempt.
AfterRateLimit_NoCount ==
    /\ Logged("429")
    /\ UNCHANGED <<pc, outcome, chunk_i, attempt, coin_ids_list>>

\* A 429: sleep(Retry-After), continue.
AfterRateLimit ==
    /\ Logged("429")
    /\ IF attempt = retries - 1
       THEN NextChunk
       ELSE /\ attempt' = attempt + 1
            /\ UNCHANGED <<pc, outcome, chunk_i, coin_ids_list>>

\* fetch_prices_from_coingecko: one request for the current chunk.
PriceRequest ==
    /\ pc = "quote"
    /\ chunk_i <= Len(Chunks(coin_ids_list))
    /\ \/ \* 200
          /\ all_prices' =
                Update(all_prices, OracleData(Chunks(coin_ids_list)[chunk_i]))
          /\ NextChunk
          /\ Logged("200")
          /\ pause' = [hint |-> NoNumber, slept |-> ChunkPause]
          /\ UNCHANGED oracleFaults
       \/ \* 429
          /\ oracleFaults < MaxOracleFaults
          /\ oracleFaults' = oracleFaults + 1
          /\ AfterRateLimit
          /\ \E hint \in RetryAfterHints :
                pause' = [hint |-> hint,
                          slept |-> ResetTime(hint)
                                      + IF attempt = retries - 1
                                        THEN ChunkPause ELSE 0]
          /\ UNCHANGED all_prices
       \/ \* another status
          /\ oracleFaults < MaxOracleFaults
          /\ oracleFaults' = oracleFaults + 1
          /\ AfterHardFailure
          /\ pause' = NoPause
          /\ UNCHANGED all_prices
       \/ \* requests.get raises
          /\ oracleFaults < MaxOracleFaults
          /\ oracleFaults' = oracleFaults + 1
          /\ AfterHardFailure
          /\ pause' = NoPause
          /\ UNCHANGED all_prices
    /\ Moved
    /\ UNCHANGED <<run, enumVars, writeVars, reportVars, storeVars, prevClean,
                   connVars>>

\* A return that goes on to the task loop with the pages never read.
FetchReturn_SkipPages ==
    /\ pc = "quote"
    /\ chunk_i > Len(Chunks(coin_ids_list))
    /\ pc' = "plan"
    /\ coin_ids_list' = <<>>
    /\ chunkLog' = <<>>
    /\ pause' = NoPause
    /\ oracleFaults' = 0
    /\ Moved
    /\ UNCHANGED <<run, outcome, chunk_i, attempt, all_prices,
                   enumVars, writeVars, reportVars, storeVars, prevClean,
                   connVars>>

\* fetch_prices_from_coingecko returns all_prices after the last chunk and
\* update_notion_database goes on to read the pages.
FetchReturn ==
    /\ pc = "quote"
    /\ chunk_i > Len(Chunks(coin_ids_list))
    /\ pc' = "enum2"
    /\ coin_ids_list' = <<>>
    /\ chunkLog' = <<>>
    /\ pause' = NoPause
    /\ oracleFaults' = 0
    /\ Moved
    /\ UNCHANGED <<run, outcome, chunk_i, attempt, all_prices,
                   enumVars, writeVars, reportVars, storeVars, prevClean,
                   connVars>>

\* ---------------------------------------------------- second enumeration
\* get_all_notion_pages_for_update: one query of the database.
PagesQuery ==
    /\ pc = "enum2"
    /\ \/ \* the request raises, or raise_for_status does
          /\ storeFaults < MaxStoreFaults
          /\ storeFaults' = storeFaults + 1
          /\ pageFail' = pageFail \cup {2}
          /\ pc' = "plan"
          /\ start_cursor' = 0
          /\ UNCHANGED <<all_pages, anomalies>>
       \/ \* a response: has_more says whether rows remain
          /\ LET got == CollectPages(PageRows(start_cursor), all_pages) IN
             /\ all_pages' = got.pages
             /\ IF got.raised \/ ~HasMore(start_cursor)
                THEN /\ pc' = "plan"
                     /\ start_cursor' = 0
                ELSE /\ start_cursor' = NextCursor(start_cursor)
                     /\ UNCHANGED pc
          /\ UNCHANGED <<pageFail, storeFaults, anomalies>>
       \/ \* a response with has_more true and no next_cursor
          /\ HasMore(start_cursor)
          /\ anomalies < MaxAnomalies
          /\ anomalies' = anomalies + 1
          /\ LET got == CollectPages(PageRows(start_cursor), all_pages) IN
             /\ all_pages' = got.pages
             /\ IF got.raised THEN pc' = "plan" ELSE UNCHANGED pc
             /\ start_cursor' = 0
          /\ UNCHANGED <<pageFail, storeFaults>>
    /\ Moved
    /\ UNCHANGED <<run, outcome, all_coin_ids, quoteVars, writeVars,
                   reportVars, storeVars, prevClean, connVars>>

\* ------------------------------------------------------------- planning
\* A task loop that gives every page the price of one and the same coin.
RECURSIVE PrepareTasks_WrongPrice(_, _)
PrepareTasks_WrongPrice(pages, prices) ==
    IF pages = <<>> THEN <<>>
    ELSE LET page == Head(pages)
             rest == PrepareTasks_WrongPrice(Tail(pages), prices)
         IN IF page.coin_id \in DOMAIN prices
            THEN <<[page_id |-> page.page_id,
                    new_price |->
                        prices[CHOOSE k \in DOMAIN prices : TRUE]]>> \o rest
            ELSE rest

\* The loop that prepares update_tasks: one task per page whose coin_id is
\* in prices_map.
RECURSIVE PrepareTasks(_, _)
PrepareTasks(pages, prices) ==
    IF pages = <<>> THEN <<>>
    ELSE LET page == Head(pages)
             rest == PrepareTasks(Tail(pages), prices)
         IN IF page.coin_id \in DOMAIN prices
            THEN <<[page_id |-> page.page_id,
                    new_price |-> prices[page.coin_id]]>> \o rest
            ELSE rest

\* update_notion_database, step 4; executor.map then submits every task.
Plan ==
    /\ pc = "plan"
    /\ LET tasks == PrepareTasks(all_pages, all_prices) IN
       /\ update_tasks' = tasks
       /\ queue' = [i \in 1..Len(tasks) |-> i]
       /\ results' = [i \in 1..Len(tasks) |-> "pending"]
       /\ sent' = [i \in 1..Len(tasks) |-> 0]
       /\ answers' = [i \in 1..Len(tasks) |-> "none"]
       /\ pc' = IF tasks # <<>> THEN "write" ELSE "report"
    /\ inflight' = {}
    /\ storeFaults' = 0
    /\ anomalies' = 0
    /\ Moved
    /\ UNCHANGED <<run, outcome, start_cursor, all_coin_ids, all_pages,
                   pageFail, quoteVars, writeFaults, reportVars, storeVars,
                   prevClean, connVars>>

\* ------------------------------------------------------------ write-back
\* The pool without its limit: a thread per submitted task.
WorkerIdle_Unbounded == TRUE

\* A worker thread of the pool is free to take a task.
WorkerIdle == Cardinality(inflight) < max_workers

\* A worker takes the next task of the queue and sends its PATCH.
WorkerStart ==
    /\ pc = "write"
    /\ queue # <<>>
    /\ WorkerIdle
    /\ inflight' = inflight \cup {Head(queue)}
    /\ queue' = Tail(queue)
    /\ sent' = [sent EXCEPT ![Head(queue)] = @ + 1]
    /\ UNCHANGED <<pc, run, outcome, enumVars, quoteVars, update_tasks,
                   results, answers, writeFaults, reportVars, storeVars,
                   prevClean, trail, connVars>>

\* update_single_notion_page: what it returns for the store's answer
\* ("ok", or the class of the failure, which the message of info carries).
TaskResult(answer) == answer

\* A failure that leaves update_single_notion_page as an exception: the
\* iterator of executor.map raises and cancels the tasks not yet started.
QueueAfter_CancelOnFailure(q, i, result) == IF result = "ok" THEN q ELSE <<>>

\* The work queue after task i ended with the given result: the failure
\* is returned as a value, so nothing is submitted again and nothing is
\* cancelled.
QueueAfter(q, i, result) == q

\* The body of the PATCH update_single_notion_page sends for a task.
Payload(task) ==
    [page_id |-> task.page_id,
     properties |-> {"Price", "Last Updated"},
     number |-> task.new_price]

\* The store rejects, as a validation error, a PATCH that names a property
\* the database does not have.
Accepted(payload) == payload.properties \subseteq StoreProperties

\* The store answers the PATCH of task i and update_single_notion_page
\* returns.
WorkerFinish(i, answer) ==
    /\ pc = "write"
    /\ i \in inflight
    /\ answer = "ok" => Accepted(Payload(update_tasks[i]))
    /\ IF answer = "ok"
       THEN /\ storePrice' = [storePrice EXCEPT
                   ![update_tasks[i].page_id] =
                       <<Payload(update_tasks[i]).number>>]
            /\ UNCHANGED writeFaults
       ELSE IF answer = "validation" /\ ~Accepted(Payload(update_tasks[i]))
       THEN UNCHANGED <<storePrice, writeFaults>>
       ELSE /\ writeFaults < MaxWriteFaults
            /\ writeFaults' = writeFaults + 1
            /\ UNCHANGED storePrice
    /\ inflight' = inflight \ {i}
    /\ answers' = [answers EXCEPT ![i] = answer]
    /\ results' = [results EXCEPT ![i] = TaskResult(answer)]
    /\ queue' = QueueAfter(queue, i, TaskResult(answer))
    /\ UNCHANGED <<pc, run, outcome, enumVars, quoteVars, update_tasks, sent,
                   reportVars, prevClean, trail, blankRow, hasUpdated,
                   connVars>>

\* The loop over results counting every result, not only the successes.
CountUpdated_All(res) == Len(res)

\* updated_count after the loop over results
CountUpdated(res) == Cardinality({i \in DOMAIN res : res[i] = "ok"})

\* failed_updates after the loop over results: the info of each failure,
\* in task order
RECURSIVE FailedInfos(_, _)
FailedInfos(res, tasks) ==
    IF res = <<>> THEN <<>>
    ELSE IF Head(res) = "ok"
         THEN FailedInfos(Tail(res), Tail(tasks))
         ELSE <<[page_id |-> Head(tasks).page_id, error |-> Head(res)]>>
              \o FailedInfos(Tail(res), Tail(tasks))

\* A pool that is left as soon as every task has been handed to a worker.
PoolDone_NoWait == queue = <<>>

\* ThreadPoolExecutor.__exit__ is shutdown(wait=True): every task has been
\* taken and every worker has returned.
PoolDone == queue = <<>> /\ inflight = {}

\* The with block ends when every task has returned; the results are
\* counted.
PoolJoin ==
    /\ pc = "write"
    /\ PoolDone
    /\ updated_count' = CountUpdated(results)
    /\ failed_updates' = FailedInfos(results, update_tasks)
    /\ pc' = "report"
    /\ Moved
    /\ UNCHANGED <<run, outcome, enumVars, quoteVars, writeVars, summary,
                   storeVars, prevClean, connVars>>

\* The summary line; update_notion_database returns.
Report ==
    /\ pc = "report"
    /\ summary' = TRUE
    /\ outcome' = "done"
    /\ pc' = "sleep"
    /\ Moved
    /\ UNCHANGED <<run, enumVars, quoteVars, writeVars, updated_count,
                   failed_updates, storeVars, prevClean, connVars>>

Answers == {"ok", "validation", "transport", "auth"}

Next ==
    \/ StartRun
    \/ CoinsQuery
    \/ PriceRequest
    \/ FetchReturn
    \/ PagesQuery
    \/ Plan
    \/ WorkerStart
    \/ \E i \in inflight, answer \in Answers : WorkerFinish(i, answer)
    \/ PoolJoin
    \/ Report
    \/ Wake

Spec == Init /\ [][Next]_vars

\* ============================================== notion_connector.py
\* The list analyze_cryptocurrencies made: the rows that have a name.
RECURSIVE NamedRows(_)
NamedRows(rows) ==
    IF rows = <<>> THEN <<>>
    ELSE LET prop == SymbolProp(Head(rows))
             rest == NamedRows(Tail(rows))
         IN IF prop.frags # <<>> /\ prop.frags[1] # <<>>
            THEN <<[page_id |-> Head(rows), name |-> prop.frags[1]]>> \o rest
            ELSE rest

Cryptocurrencies == NamedRows([r \in 1..NumRecords |-> r])

\* The id of the coin CoinGecko's search resolves the name to (it matches
\* names without regard to case); <<>> when it knows no such coin.
SearchHit(name) ==
    IF Lower(Strip(name)) \in KnownCoins THEN Lower(Strip(name)) ELSE <<>>

\* coin_mapping[coin_info['id']] = {'page_id': page_id, ...}
MapCoin(mapping, id, page_id) ==
    [k \in DOMAIN mapping \cup {id} |->
        IF k = id THEN page_id ELSE mapping[k]]

\* The keys of the dict keep the order of their first insertion.
KeysAfter(keys, id) ==
    IF \E i \in DOMAIN keys : keys[i] = id THEN keys ELSE Append(keys, id)

\* The answers of a server to a request: 200, 429, or any other failure (an
\* HTTP error status, or the request raising).
Statuses == {"200", "429", "failed"}

\* The answers a server gives to the successive sendings of one request: it
\* limits the rate for a while (429), then answers or fails; what it would
\* say after that is read by nobody and written 200.
Scripts ==
    {script \in [1..MaxScript -> Statuses] :
        \A i \in 1..(MaxScript - 1) : script[i] # "429" => script[i + 1] = "200"}

\* A request that is sent until some answer other than 429 comes.
RequestOnce_UntilAnswered(script) ==
    LET n == CHOOSE i \in DOMAIN script :
                 /\ script[i] # "429" \/ i = Len(script)
                 /\ \A j \in 1..(i - 1) : script[j] = "429"
    IN SubSeq(script, 1, n)

\* response = get(...); if response.status_code == 429: sleep(Retry-After);
\* response = get(...): the answers to the requests that were sent.
RequestOnce(script) ==
    SubSeq(script, 1, IF script[1] = "429" THEN 2 ELSE 1)

\* response.raise_for_status() does not raise.
Succeeded(log) == log # <<>> /\ log[Len(log)] = "200"

\* The requests of a log that were not answered 200.
Failures(log) == Cardinality({i \in DOMAIN log : log[i] # "200"})

\* The coin whose symbol is the symbol, without regard to case.
SymbolHit(symbol) ==
    IF Lower(symbol) \in KnownCoins THEN Lower(symbol) ELSE <<>>

\* search_cryptocurrency(name, symbol), the server answering its query by
\* symbol as bySymbol says and its query by name as byName says: the logs of
\* the requests it sent and the id of the coin it returns (<<>> for None).
search_cryptocurrency(name, symbol, bySymbol, byName) ==
    LET first == IF symbol # <<>> THEN <<RequestOnce(bySymbol)>> ELSE <<>>
        raised1 == first # <<>> /\ ~Succeeded(first[1])
        found == first # <<>> /\ ~raised1 /\ SymbolHit(symbol) # <<>>
        second == IF raised1 \/ found THEN <<>> ELSE <<RequestOnce(byName)>>
        raised2 == second # <<>> /\ ~Succeeded(second[1])
    IN [logs |-> first \o second,
        coin |-> IF raised1 \/ raised2 THEN <<>>
                 ELSE IF found THEN SymbolHit(symbol)
                 ELSE SearchHit(name)]

\* The symbols a row of the list can carry: none, or the text of its name.
SymbolsOf(crypto) == {<<>>, crypto.name}

\* The scripts of a request that is sent; a request that is not sent has no
\* answers to draw.
ScriptsOf(asked) ==
    IF asked THEN Scripts ELSE {[i \in 1..MaxScript |-> "200"]}

\* search_cryptocurrency gets as far as its query by name: the query by
\* symbol was not made, or it was answered and gave no coin of that symbol.
NameAsked(symbol, bySymbol) ==
    \/ symbol = <<>>
    \/ Succeeded(RequestOnce(bySymbol)) /\ SymbolHit(symbol) = <<>>

\* update_crypto_rates, stage 1: search_cryptocurrency for one entry.
SearchCrypto ==
    /\ cpc = "search"
    /\ crypto_i <= Len(Cryptocurrencies)
    /\ \E symbol \in SymbolsOf(Cryptocurrencies[crypto_i]) :
       \E bySymbol \in ScriptsOf(symbol # <<>>) :
       \E byName \in ScriptsOf(NameAsked(symbol, bySymbol)) :
          LET crypto == Cryptocurrencies[crypto_i]
              found == search_cryptocurrency(crypto.name, symbol,
                                             bySymbol, byName)
              faults == Failures(found.logs[1])
                        + IF Len(found.logs) = 2
                          THEN Failures(found.logs[2]) ELSE 0
          IN /\ connFaults + faults <= MaxConnFaults
             /\ connFaults' = connFaults + faults
             /\ requests' = [op |-> "search", at |-> crypto_i,
                             logs |-> found.logs, ok |-> found.coin # <<>>]
             /\ IF found.coin # <<>>
                THEN /\ coin_mapping' = MapCoin(coin_mapping, found.coin,
                                                crypto.page_id)
                     /\ coin_ids' = KeysAfter(coin_ids, found.coin)
                ELSE UNCHANGED <<coin_mapping, coin_ids>>
    /\ crypto_i' = crypto_i + 1
    /\ UNCHANGED <<cpc, batch_i, batch_attempt, updated_cryptos, update_i,
                   success_count, error_count, patched, batchLog, batchReturn,
                   recordLog, appVars>>

\* The loop over cryptocurrencies is over.
SearchDone ==
    /\ cpc = "search"
    /\ crypto_i > Len(Cryptocurrencies)
    /\ cpc' = IF DOMAIN coin_mapping = {} THEN "done" ELSE "batch"
    /\ UNCHANGED <<crypto_i, coin_mapping, coin_ids, batch_i, batch_attempt,
                   updated_cryptos, update_i, success_count, error_count,
                   patched, connFaults, batchLog, batchReturn, requests,
                   recordLog, appVars>>

\* batch = coin_ids[i:i + batch_size]
Batch(n) ==
    SubSeq(coin_ids, (n - 1) * batch_size + 1,
           Min(n * batch_size, Len(coin_ids)))

NumBatches == (Len(coin_ids) + batch_size - 1) \div batch_size

\* The bodies of a 200 response to ids=<batch>: the known ids with their usd,
\* or the known ids without it (price_data.get('usd') is then None, which the
\* model writes 0: update_notion_database tests it with "not price").
Bodies(batch) ==
    {OracleData(batch), [k \in DOMAIN OracleData(batch) |-> 0]}

\* The entries update_crypto_rates appends for a batch and its prices.
RECURSIVE BatchEntries(_, _)
BatchEntries(batch, prices) ==
    IF batch = <<>> THEN <<>>
    ELSE LET id == Head(batch)
             rest == BatchEntries(Tail(batch), prices)
         IN IF id \in DOMAIN prices
            THEN <<[page_id |-> coin_mapping[id], coingecko_id |-> id,
                    price_usd |-> prices[id]]>> \o rest
            ELSE rest

\* get_batch_prices returned batch_prices after the answer: the results are
\* appended and the loop goes to the next batch, or to
\* update_notion_database.
AfterBatch(answer, batch_prices) ==
    LET entries == updated_cryptos \o BatchEntries(Batch(batch_i), batch_prices)
    IN /\ updated_cryptos' = entries
       /\ batch_attempt' = 0
       /\ batchLog' = <<>>
       /\ batchReturn' = [batch |-> Batch(batch_i),
                          log |-> Append(batchLog, answer),
                          data |-> batch_prices]
       /\ batch_i' = batch_i + 1
       /\ cpc' = IF batch_i + 1 <= NumBatches THEN "batch"
                 ELSE IF entries # <<>> THEN "update" ELSE "done"

\* A loop of get_batch_prices that goes round again after any failure.
RetryBatch_AnyFailure(answer) ==
    answer # "200" /\ batch_attempt < max_retries - 1

\* get_batch_prices goes round its loop again: after a 429 that is not the
\* answer to the last attempt.
RetryBatch(answer) ==
    answer = "429" /\ batch_attempt < max_retries - 1

\* get_batch_prices: one request for the current batch.
BatchRequest ==
    /\ cpc = "batch"
    /\ \E answer \in Statuses :
          /\ IF answer = "200" THEN UNCHANGED connFaults
             ELSE /\ connFaults < MaxConnFaults
                  /\ connFaults' = connFaults + 1
          /\ IF RetryBatch(answer)
             THEN /\ batch_attempt' = batch_attempt + 1
                  /\ batchLog' = Append(batchLog, answer)
                  /\ UNCHANGED <<cpc, batch_i, updated_cryptos, batchReturn>>
             ELSE \E body \in Bodies(Batch(batch_i)) :
                     AfterBatch(answer,
                                IF answer = "200" THEN body ELSE EmptyMap)
    /\ UNCHANGED <<crypto_i, coin_mapping, coin_ids, update_i, success_count,
                   error_count, patched, requests, recordLog, appVars>>

\* The loop of update_notion_database goes to the next entry, having counted
\* the entry as the outcome says.
NextRecord_StopOnError(outcome_) ==
    /\ recordLog' = Append(recordLog, outcome_)
    /\ update_i' = update_i + 1
    /\ cpc' = IF update_i + 1 > Len(updated_cryptos) \/ outcome_ = "error"
              THEN "done" ELSE "update"

NextRecord(outcome_) ==
    /\ recordLog' = Append(recordLog, outcome_)
    /\ update_i' = update_i + 1
    /\ cpc' = IF update_i + 1 > Len(updated_cryptos) THEN "done" ELSE "update"

\* CoinGeckoAPI.update_notion_database: one entry of updated_cryptos.
UpdatePage ==
    /\ cpc = "update"
    /\ update_i <= Len(updated_cryptos)
    /\ LET crypto == updated_cryptos[update_i] IN
       IF crypto.price_usd = 0
       THEN \* if not price: continue
            /\ NextRecord("skipped")
            /\ UNCHANGED <<success_count, error_count, patched, connFaults,
                           requests>>
       ELSE \/ \* every find_property_name returned None: no properties,
               \* continue
               /\ connFaults < MaxConnFaults
               /\ connFaults' = connFaults + 1
               /\ NextRecord("skipped")
               /\ UNCHANGED <<success_count, error_count, patched, requests>>
            \/ \* the PATCH, repeated once after a 429
               \E script \in Scripts :
                  LET log == RequestOnce(script) IN
                  /\ connFaults + Failures(log) <= MaxConnFaults
                  /\ connFaults' = connFaults + Failures(log)
                  /\ requests' = [op |-> "patch", at |-> update_i,
                                  logs |-> <<log>>, ok |-> Succeeded(log)]
                  /\ IF Succeeded(log)
                     THEN /\ success_count' = success_count + 1
                          /\ patched' = patched \cup {crypto.page_id}
                          /\ NextRecord("success")
                          /\ UNCHANGED error_count
                     ELSE /\ error_count' = error_count + 1
                          /\ NextRecord("error")
                          /\ UNCHANGED <<success_count, patched>>
    /\ UNCHANGED <<crypto_i, coin_mapping, coin_ids, batch_i, batch_attempt,
                   updated_cryptos, batchLog, batchReturn, appVars>>

NextConn ==
    \/ SearchCrypto
    \/ SearchDone
    \/ BatchRequest
    \/ UpdatePage

SpecConn == Init /\ [][NextConn]_vars

\* ================================================================ claims
\* The oracle was asked for prices in this run.
OracleAsked == pc \in {"quote", "enum2", "plan", "write", "report"}
                  /\ (chunk_i > 1 \/ attempt > 0 \/ pc # "quote")

\* A PATCH was sent in this run.
Written == \E i \in DOMAIN sent : sent[i] > 0

\* C1: when a page query of an enumeration pass fails, the rows read before
\* it are discarded: after a failure in the first pass no price is requested
\* and nothing is written, after a failure in the second pass nothing is
\* written.
C1_PartialPagesDiscarded ==
    /\ 1 \in pageFail => ~OracleAsked /\ ~Written
    /\ 2 \in pageFail => ~Written

\* C2: fetch_prices_from_coingecko never fails the run: no run ends in the
\* critical handler of update_notion_database because a chunk used up its
\* attempts.
C2_QuotingNeverFailsRun == outcome # "critical"

\* C3: a run that follows a run in which everything succeeded, with the
\* same quotes, sends no write to the store.
C3_SecondRunWritesNothing == prevClean => ~Written

\* |cached - quoted| is at least the unchanged-threshold 1e-10 (10 price
\* units), or there is no cached value.
Changed(cached, quoted) ==
    \/ cached = NoNumber
    \/ cached[1] - quoted >= 10
    \/ quoted - cached[1] >= 10

\* C4: a write is planned for a row only if its cached value is absent or
\* differs from the quote by at least the threshold (every row of the
\* database has the Price property).  Stated when the plan is made and no
\* write of it has been answered.
C4_PlanOnlyIfChanged ==
    (pc = "write" /\ \A i \in DOMAIN answers : answers[i] = "none") =>
        \A i \in DOMAIN update_tasks :
            Changed(storePrice[update_tasks[i].page_id],
                    update_tasks[i].new_price)

\* C5: once a write was answered with an authentication failure, no task
\* that was not in flight is started.
C5_AuthFailureStopsDispatch ==
    [][(pc = "write" /\ \E i \in DOMAIN answers : answers[i] = "auth")
          => queue' = queue]_vars

NonFatal == {"validation", "transport"}

\* C6: a validation or transport failure of a write is recorded as a failure
\* of that row only, no write is sent twice, and when the pool is done every
\* planned update was sent exactly once.
C6_FailureIsolated ==
    /\ \A i \in DOMAIN sent : sent[i] <= 1
    /\ pc \in {"report", "sleep"} =>
          /\ \A i \in DOMAIN update_tasks : sent[i] = 1
          /\ \A i \in DOMAIN answers :
                answers[i] \in NonFatal =>
                    /\ results[i] = answers[i]
                    /\ \E k \in DOMAIN failed_updates :
                          failed_updates[k].page_id = update_tasks[i].page_id
          /\ Len(failed_updates) =
                Cardinality({i \in DOMAIN answers : answers[i] # "ok"})

\* C6 witness: task 1 failed validation while tasks 2 and 3 were in flight,
\* and task 4 was started after that.
C6_Witness ==
    /\ pc = "write"
    /\ Len(update_tasks) >= 4
    /\ answers[1] = "validation"
    /\ {2, 3, 4} \subseteq inflight

\* C7: when write-back has finished, successes plus failures equal the number
\* of planned updates, and every planned update has an outcome.
C7_OneOutcomePerPlan ==
    pc \in {"report", "sleep"} =>
        /\ updated_count + Len(failed_updates) = Len(update_tasks)
        /\ \A i \in DOMAIN results : results[i] # "pending"

\* C7 witness: a finished run with successes and failures.
C7_Witness ==
    /\ pc = "sleep"
    /\ outcome = "done"
    /\ updated_count >= 2
    /\ Len(failed_updates) >= 1

\* C8: at most max_workers (3) writes are in flight.
C8_InFlightBounded == Cardinality(inflight) <= max_workers

\* C8 witness: three writes in flight and more tasks waiting.
C8_Witness == Cardinality(inflight) = max_workers /\ queue # <<>>

\* C9: no two planned updates of a run target the same row, so no two
\* writes in flight do.
C9_OnePlanPerRecord ==
    \A i, j \in DOMAIN update_tasks :
        i # j => update_tasks[i].page_id # update_tasks[j].page_id

\* C10: when several rows resolve to the same oracle id and that id has a
\* quote, every one of them is written: after a call of update_crypto_rates
\* in which no request failed and every quote had its usd, every row that
\* resolves to a quoted id was patched.
C10_EveryDuplicateWritten ==
    (/\ cpc = "done"
     /\ connFaults = 0
     /\ \A i \in DOMAIN updated_cryptos : updated_cryptos[i].price_usd # 0) =>
        \A k \in DOMAIN Cryptocurrencies :
            SearchHit(Cryptocurrencies[k].name) \in KnownCoins =>
                Cryptocurrencies[k].page_id \in patched

Range(s) == {s[i] : i \in DOMAIN s}

IsPrefix(s, t) == Len(s) <= Len(t) /\ \A i \in DOMAIN s : s[i] = t[i]

StagePaths ==
    { <<"enum1", "quote", "enum2", "plan", "write", "report", "sleep">>,
      <<"enum1", "quote", "enum2", "plan", "report", "sleep">>,
      <<"enum1", "sleep">>,
      <<"enum1", "quote", "sleep">> }

LastStage == trail[Len(trail) - 1]

\* C12: a run that ends without reaching Done ended either in enumeration
\* or in write-back; no run ends that way in quoting.
C12_FailedOnlyFromEnumOrWrite ==
    (pc = "sleep" /\ outcome # "done") =>
        LastStage \in {"enum1", "enum2", "write"}

\* C13: every run that has ended has reported its summary counts.
C13_SummaryAtEveryEnd == pc = "sleep" => summary

UpperCase == {"B", "T", "C", "E", "H"}

\* A key with no whitespace at either end and no upper-case letter.
Normalized(k) ==
    /\ k # <<>>
    /\ k[1] \notin Whitespace
    /\ k[Len(k)] \notin Whitespace
    /\ \A i \in DOMAIN k : k[i] \notin UpperCase

\* The text between the first and the last character that is not whitespace.
Core(s) ==
    LET ink == {i \in DOMAIN s : s[i] \notin Whitespace} IN
    IF ink = {} THEN <<>>
    ELSE SubSeq(s, CHOOSE i \in ink : \A j \in ink : i <= j,
                   CHOOSE i \in ink : \A j \in ink : j <= i)

CaseEq(c, d) ==
    \/ c = d
    \/ {c, d} \in {{"B", "b"}, {"T", "t"}, {"C", "c"}, {"E", "e"}, {"H", "h"}}

\* Two texts that are equal up to letter case.
SameLetters(a, b) ==
    /\ Len(a) = Len(b)
    /\ \A i \in DOMAIN a : CaseEq(a[i], b[i])

\* Two texts that differ only in letter case and surrounding whitespace.
SameKeyField(a, b) == SameLetters(Core(a), Core(b))

RawSymbol(page) == SymbolProp(page.page_id).frags[1]

\* C14: every key collected, sent to the oracle, found in its answer or
\* attached to a page is trimmed and lower-cased, and two rows whose Symbol
\* texts differ only in case and surrounding whitespace have the same key.
\* The keys are looked at in the stages that insert, send or look them up;
\* no later stage changes them.
C14_KeysNormalized ==
    pc \in {"enum1", "quote", "enum2", "plan"} =>
        /\ \A k \in all_coin_ids : Normalized(k)
        /\ \A i \in DOMAIN coin_ids_list : Normalized(coin_ids_list[i])
        /\ \A k \in DOMAIN all_prices : Normalized(k)
        /\ \A k1, k2 \in all_coin_ids : SameLetters(k1, k2) => k1 = k2
        /\ \A i \in DOMAIN all_pages :
              /\ Normalized(all_pages[i].coin_id)
              /\ SameKeyField(RawSymbol(all_pages[i]), all_pages[i].coin_id)
        /\ \A e1, e2 \in {<<Core(RawSymbol(all_pages[i])),
                           all_pages[i].coin_id>> : i \in DOMAIN all_pages} :
              SameLetters(e1[1], e2[1]) => e1[2] = e2[2]

\* C14 witness: two rows whose Symbol texts differ in case and whitespace
\* were read and carry the same key, which the oracle has quoted.
C14_Witness ==
    \E i, j \in DOMAIN all_pages :
        /\ pc = "plan"
        /\ RawSymbol(all_pages[i]) # RawSymbol(all_pages[j])
        /\ Len(RawSymbol(all_pages[i])) # Len(RawSymbol(all_pages[j]))
        /\ all_pages[i].coin_id = all_pages[j].coin_id
        /\ all_pages[i].coin_id \in DOMAIN all_prices

\* A row whose Symbol property gives a key.
Usable(r) ==
    /\ SymbolProp(r).type \in {"rich_text", "title"}
    /\ SymbolProp(r).frags # <<>>
    /\ Core(SymbolProp(r).frags[1]) # <<>>

\* C15: a row with a missing, unsupported or empty Symbol is left out and
\* nothing else is: when the second pass ends in a run with no failed query, every
\* row that has a key is among the pages, and no row without one is.
C15_OnlyBadRowsExcluded ==
    (pc = "plan" /\ pageFail = {}) =>
        /\ \A r \in Records :
              Usable(r) => \E i \in DOMAIN all_pages : all_pages[i].page_id = r
        /\ \A i \in DOMAIN all_pages : Usable(all_pages[i].page_id)

\* C16: an enumeration pass is driven by the cursor: whenever a response
\* leaves the pass with another request to make, that request carries a
\* cursor (the one of the response), so no pass queries from the start twice.
C16_LaterRequestsCarryCursor ==
    [][(pc \in {"enum1", "enum2"} /\ pc' = pc) => start_cursor' # 0]_vars

RECURSIVE Flatten(_)
Flatten(ss) == IF ss = <<>> THEN <<>> ELSE Head(ss) \o Flatten(Tail(ss))

\* C17: the keys are cut into ceil(n / chunk size) chunks, none empty or
\* longer than the chunk size, all but the last of exactly that size, which
\* together hold every key once; a chunk whose first request succeeds gets
\* no other request, and every chunk gets at least one.
C17_ChunksPartitionKeys ==
    pc = "quote" =>
        LET n  == Len(coin_ids_list)
            ch == Chunks(coin_ids_list)
        IN /\ Len(ch) * ChunkSize >= n
           /\ (Len(ch) - 1) * ChunkSize < n
           /\ \A c \in DOMAIN ch :
                 /\ Len(ch[c]) >= 1
                 /\ Len(ch[c]) <= ChunkSize
                 /\ c < Len(ch) => Len(ch[c]) = ChunkSize
           /\ Flatten(ch) = coin_ids_list
           /\ \A i, j \in DOMAIN coin_ids_list :
                 coin_ids_list[i] = coin_ids_list[j] => i = j
           /\ DOMAIN chunkLog = DOMAIN ch
           /\ \A c \in DOMAIN ch :
                 /\ c < chunk_i => chunkLog[c] # <<>>
                 /\ c > chunk_i => chunkLog[c] = <<>>
                 /\ (chunkLog[c] # <<>> /\ chunkLog[c][1] = "200")
                       => chunkLog[c] = <<"200">>

\* C17 witness: three keys were cut into a chunk of two and a chunk of one
\* and each chunk was answered at its first request.
C17_Witness ==
    /\ pc = "quote"
    /\ Len(coin_ids_list) = ChunkSize + 1
    /\ chunk_i > Len(Chunks(coin_ids_list))
    /\ \A c \in DOMAIN chunkLog : chunkLog[c] = <<"200">>

ChunkKeys(c) ==
    LET chunk == Chunks(coin_ids_list)[c] IN {chunk[i] : i \in DOMAIN chunk}

Last(s) == s[Len(s)]

\* C18: no chunk is requested more than three times; a chunk answered 429
\* three times is given up, none of its keys gets a price and the chunks
\* after it are still requested; a chunk answered 200 after a failed or
\* rate-limited attempt gives every quote the oracle has for its keys.
C18_ThreeAttemptsPerChunk ==
    pc = "quote" =>
        \A c \in DOMAIN chunkLog :
            /\ Len(chunkLog[c]) <= retries
            /\ chunkLog[c] = <<"429", "429", "429">> =>
                  /\ chunk_i > c
                  /\ ChunkKeys(c) \cap DOMAIN all_prices = {}
                  /\ \A d \in DOMAIN chunkLog :
                        (c < d /\ d < chunk_i) => chunkLog[d] # <<>>
            /\ (chunkLog[c] # <<>> /\ Last(chunkLog[c]) = "200") =>
                  /\ chunk_i > c
                  /\ \A k \in ChunkKeys(c) \cap KnownCoins :
                        /\ k \in DOMAIN all_prices
                        /\ all_prices[k] = OraclePrice(k)
            /\ \A i \in 1..(Len(chunkLog[c]) - 1) : chunkLog[c][i] # "200"

\* C18 witness: the first chunk was answered 429 three times and the second
\* chunk was then requested and answered.
C18_Witness ==
    /\ pc = "quote"
    /\ Len(chunkLog) >= 2
    /\ chunkLog[1] = <<"429", "429", "429">>
    /\ chunkLog[2] = <<"200">>
    /\ ChunkKeys(2) \cap DOMAIN all_prices # {}

\* The quoted keys that are the key of row r.
QuotedKeysOf(r) ==
    {k \in DOMAIN all_prices : SameKeyField(SymbolProp(r).frags[1], k)}

\* The planning has just been done and no write has started.
JustPlanned ==
    /\ pc \in {"write", "report"}
    /\ inflight = {}
    /\ \A i \in DOMAIN sent : sent[i] = 0

\* C19: every planned update is for a page whose key has a quote and carries
\* the quote of that key; a page whose key has no quote gets no update; a
\* write that succeeded stored the planned value; a row whose key the oracle
\* does not know is never written, and a run that got to the planning ends
\* with its summary.
C19_WriteIsQuoteOfOwnKey ==
    /\ JustPlanned =>
          /\ \A i \in DOMAIN update_tasks :
                \E k \in QuotedKeysOf(update_tasks[i].page_id) :
                    update_tasks[i].new_price = all_prices[k]
          /\ \A j \in DOMAIN all_pages :
                QuotedKeysOf(all_pages[j].page_id) = {} =>
                    \A i \in DOMAIN update_tasks :
                        update_tasks[i].page_id # all_pages[j].page_id
    /\ \A i \in DOMAIN update_tasks :
          answers[i] = "ok" =>
              storePrice[update_tasks[i].page_id]
                  = <<update_tasks[i].new_price>>
    /\ pc = "sleep" =>
          /\ \A r \in Records :
                (~Usable(r) \/ \A k \in KnownCoins :
                                  ~SameKeyField(SymbolProp(r).frags[1], k))
                    => storePrice[r] = InitialPrice(r)
          /\ (\E i \in DOMAIN trail : trail[i] = "plan") =>
                outcome = "done" /\ summary

\* C19 witness: a run has ended in which a btc page and an eth page were
\* written with their own quotes, every write succeeded, and a page whose
\* key has no quote was read and left alone.
C19_Witness ==
    /\ pc = "sleep" /\ outcome = "done"
    /\ failed_updates = <<>>
    /\ \E i, j \in DOMAIN update_tasks :
          /\ update_tasks[i].new_price = OraclePrice(btc)
          /\ update_tasks[j].new_price = OraclePrice(eth)
          /\ answers[i] = "ok" /\ answers[j] = "ok"
    /\ \E j \in DOMAIN all_pages :
          /\ all_pages[j].coin_id \notin DOMAIN all_prices
          /\ storePrice[all_pages[j].page_id] = NoNumber

\* C20: one run at a time: outside the write-back stage of the one call in
\* progress no worker is running and no planned write is still to return, so
\* the scheduler starts a call only when the previous one has returned with
\* all its workers.
C20_OneRunInFlight ==
    pc # "write" =>
        /\ inflight = {}
        /\ queue = <<>>
        /\ \A i \in DOMAIN results : results[i] # "pending"

\* C20 witness: the scheduler is about to start a call after a call whose
\* workers wrote to the store.
C20_Witness ==
    /\ pc = "sched"
    /\ run >= 1
    /\ \E r \in Records : storePrice[r] # InitialPrice(r)

\* C21, as claimed: a 429 uses up none of the attempts of its chunk, so a
\* chunk that was only ever answered 429 or 200 is left with a 200.
C21_RateLimitKeepsAttempts ==
    pc = "quote" =>
        \A c \in DOMAIN chunkLog :
            (c < chunk_i /\ \A i \in DOMAIN chunkLog[c] :
                                chunkLog[c][i] \in {"429", "200"})
                => Last(chunkLog[c]) = "200"

\* C21, amended: a 429 uses up one of the three attempts of its chunk like
\* any other failed attempt: the attempts used are the answers received, a
\* chunk answered 429 twice and then 200 has its prices in the result, and a
\* chunk answered three times without a 200 gets no fourth request.
C21_RateLimitUsesAttempt ==
    pc = "quote" =>
        /\ chunk_i \in DOMAIN chunkLog => attempt = Len(chunkLog[chunk_i])
        /\ \A c \in DOMAIN chunkLog :
              /\ chunkLog[c] = <<"429", "429", "200">> =>
                    \A k \in ChunkKeys(c) \cap KnownCoins :
                        /\ k \in DOMAIN all_prices
                        /\ all_prices[k] = OraclePrice(k)
              /\ Len(chunkLog[c]) = retries => c < chunk_i

\* C21 witness: a chunk was answered 429 twice and then 200, and a key of it
\* has its price.
C21_Witness ==
    /\ pc = "quote"
    /\ \E c \in DOMAIN chunkLog :
          /\ chunkLog[c] = <<"429", "429", "200">>
          /\ ChunkKeys(c) \cap DOMAIN all_prices # {}

RECURSIVE Backoff(_)
\* The exponential backoff before the k-th retry: 0.5 s, 1 s, 2 s.
Backoff(k) == IF k <= 1 THEN 5 ELSE 2 * Backoff(k - 1)

\* C22: a retry of a chunk is sent only after a pause: the Retry-After hint
\* after a 429 that carries one, and otherwise the backoff value of that
\* retry.
C22_PauseBeforeRetry ==
    (pc = "quote" /\ attempt > 0) =>
        /\ pause.slept > 0
        /\ pause.slept =
              IF Last(chunkLog[chunk_i]) = "429" /\ pause.hint # NoNumber
              THEN pause.hint[1]
              ELSE Backoff(attempt)

\* The rows of the store whose Symbol gives key k.
RowsOfKey(k) ==
    {r \in Records : Usable(r) /\ SameKeyField(SymbolProp(r).frags[1], k)}

\* C23: the list given to the oracle holds each key found once, however
\* many rows carry it, so each key is in exactly one chunk.
C23_KeysDeduplicated ==
    pc = "quote" =>
        /\ {coin_ids_list[i] : i \in DOMAIN coin_ids_list} = all_coin_ids
        /\ \A k \in all_coin_ids :
              /\ Cardinality({i \in DOMAIN coin_ids_list :
                                coin_ids_list[i] = k}) = 1
              /\ Cardinality({c \in DOMAIN Chunks(coin_ids_list) :
                                k \in ChunkKeys(c)}) = 1
              /\ RowsOfKey(k) # {}

\* C23 witness: a key carried by two rows is in the list given to the oracle,
\* which has two chunks.
C23_Witness ==
    /\ pc = "quote"
    /\ Len(Chunks(coin_ids_list)) >= 2
    /\ \E k \in all_coin_ids : Cardinality(RowsOfKey(k)) >= 2

\* C24: a write that was sent names the Last Updated property only when the
\* page has one, and its only other property is the price.
C24_TimestampOnlyIfPresent ==
    \A i \in DOMAIN update_tasks :
        sent[i] > 0 =>
            /\ "Price" \in Payload(update_tasks[i]).properties
            /\ Payload(update_tasks[i]).properties \subseteq StoreProperties

RunStages == {"enum1", "quote", "enum2", "plan", "write", "report"}

\* C25: the scheduler keeps going whatever the run did: a run leaves its
\* stages only into the scheduler's sleep, with one of the three outcomes
\* (summary logged, early return, critical error logged); the only step
\* after the sleep goes back to the top of the loop, and the only step from
\* there starts the next run.
C25_SchedulerKeepsGoing ==
    [][/\ pc' \in RunStages \cup {"sleep", "sched"}
       /\ (pc \in RunStages /\ pc' \notin RunStages) =>
              pc' = "sleep" /\ outcome' \in {"done", "skipped", "critical"}
       /\ (pc = "sleep" /\ pc' # pc) => pc' = "sched" /\ run' = run
       /\ (pc = "sched" /\ pc' # pc) => pc' = "enum1" /\ run' = run + 1]_vars

\* C25 witness: a run ended in the critical handler, the scheduler slept
\* and is back at the top of its loop, about to start the next run.
C25_Witness ==
    /\ pc = "sched"
    /\ run >= 1
    /\ outcome = "critical"

\* C26: a run whose first pass returned no key ends at once: it has asked
\* the oracle nothing, read no page for update, planned and written nothing;
\* and no run gets past the first pass without a key.
C26_EmptyFirstPassEndsRun ==
    /\ outcome = "skipped" =>
          /\ all_coin_ids = {}
          /\ pc = "sleep" => trail = <<"enum1", "sleep">>
          /\ chunkLog = <<>> /\ chunk_i = 1 /\ attempt = 0
          /\ all_prices = EmptyMap
          /\ all_pages = <<>>
          /\ update_tasks = <<>>
          /\ ~Written
          /\ ~summary
    /\ pc \in {"quote", "enum2", "plan", "write", "report"} =>
          all_coin_ids # {}

\* C26 witness: the first page request of the first pass failed and the run
\* has ended.
C26_Witness ==
    /\ pc = "sleep"
    /\ outcome = "skipped"
    /\ pageFail = {1}

\* C27: get_batch_prices never raises and sends at most 3 requests for a
\* batch: every request but the last of a call was answered 429, a call whose
\* last answer is 200 returns the body of that answer, a call whose last
\* answer is a failure returns the empty mapping, and a call ends on a 429
\* only when that 429 answers its third request.
C27_BatchPricesBounded ==
    LET log == batchReturn.log IN
    /\ cpc \in {"search", "batch", "update", "done"}
    /\ Len(batchLog) = batch_attempt
    /\ batch_attempt < max_retries
    /\ \A i \in DOMAIN batchLog : batchLog[i] = "429"
    /\ Len(log) <= max_retries
    /\ \A i \in 1..(Len(log) - 1) : log[i] = "429"
    /\ log # <<>> =>
          /\ log[Len(log)] = "200" =>
                batchReturn.data \in Bodies(batchReturn.batch)
          /\ log[Len(log)] # "200" => batchReturn.data = EmptyMap
          /\ log[Len(log)] = "429" => Len(log) = max_retries

C27_Witness ==
    /\ batchReturn.log = <<"429", "429", "429">>
    /\ batchReturn.batch # <<>>
    /\ batchReturn.data = EmptyMap

\* The entries of recordLog that are the outcome.
Count(outcome_) ==
    Cardinality({i \in DOMAIN recordLog : recordLog[i] = outcome_})

\* C28: update_notion_database handles its records one after the other and
\* each of them in one of three ways: skipped without a write, counted as a
\* success, or counted as an error. The counters are the numbers of records
\* handled in that way, their sum never exceeds the number of records, only
\* the successes were written, a record without a price is skipped, and the
\* loop ends only when every record has been handled.
C28_FailuresIsolatedPerRecord ==
    /\ Len(recordLog) = update_i - 1
    /\ Len(recordLog) <= Len(updated_cryptos)
    /\ \A i \in DOMAIN recordLog : recordLog[i] \in {"skipped", "success", "error"}
    /\ success_count = Count("success")
    /\ error_count = Count("error")
    /\ success_count + error_count <= Len(updated_cryptos)
    /\ patched = {updated_cryptos[i].page_id :
                     i \in {j \in DOMAIN recordLog : recordLog[j] = "success"}}
    /\ \A i \in DOMAIN recordLog :
          updated_cryptos[i].price_usd = 0 => recordLog[i] = "skipped"
    /\ (cpc = "done" /\ updated_cryptos # <<>>) =>
          Len(recordLog) = Len(updated_cryptos)

C28_Witness ==
    /\ cpc = "done"
    /\ Len(recordLog) = 2
    /\ recordLog[1] = "error"
    /\ recordLog[2] = "success"

====
